---- MODULE Spec2Model ----
(***************************************************************************)
(* A state-machine model of CoworkerApp (src/frontend/assets/js/main.js): *)
(* the client-side conversation store, the selection, and the asynchronous *)
(* handlers that synchronise them with the backend.                        *)
(*                                                                         *)
(* JavaScript runs every handler to its next network await without        *)
(* interruption, so each action below is either a user event (the handler  *)
(* from its entry up to its first await) or the arrival of one response    *)
(* (the continuation from that await up to the next await or the return).  *)
(* Every in-flight continuation is a record in the bag "tasks"; the record *)
(* also stands for the request the continuation is waiting for.  A remote  *)
(* call may succeed, answer with a failure, or fail in transport; payloads *)
(* are drawn from small sets.                                              *)
(*                                                                         *)
(* Of the DOM only what the handlers read back or what the user can act on *)
(* is kept: the rendered conversation list (its entries carry the click    *)
(* handlers that call switchToChat and deleteChat), the transcript pane    *)
(* and the title element.  Theme, sidebar, loader, send button and         *)
(* character counter are presentation only and are left out.               *)
(***************************************************************************)
EXTENDS Integers, Sequences, FiniteSets, Bags, TLC

\* ---------------------------------------------------------------- bounds
\* Date.now() ranges over 0..MaxTime.
MaxTime == 1
\* The backend listing holds at most MaxListed conversations.
MaxListed == 3
\* The user raises at most MaxEvents events (clicks, key presses) after page load.
MaxEvents == 2

VARIABLES
  now,            \* the value of Date.now() / new Date()
  currentChatId,  \* this.currentChatId
  chats,          \* this.chats: a Map, kept as the sequence of its values in insertion order
  chatCounter,    \* this.chatCounter
  isLoading,      \* this.isLoading
  userMemory,     \* this.userMemory
  isInitialized,  \* this.isInitialized
  tasks,          \* bag of suspended continuations, each waiting for one response
  dom,            \* what is rendered: [list, view, title]
  lastStep,       \* history variable: what the last step called, issued and rendered
  events,         \* history variable: the number of user events so far
  historyLoaded,  \* history variable: the conversations in the Map whose history a fetch has delivered
  fmt             \* one formatTime call: [now, date, str], str empty until it returns

vars == <<now, currentChatId, chats, chatCounter, isLoading, userMemory,
          isInitialized, tasks, dom, lastStep, events, historyLoaded, fmt>>

\* ------------------------------------------------------------ identifiers
\* Conversation ids are strings in the code; here a record, so that the id
\* `chat_${Date.now()}_${this.chatCounter++}` keeps both of its parts.
NULL == [src |-> "null", t |-> 0, c |-> 0]
BackendId(k) == [src |-> "backend", t |-> 0, c |-> k]
ClientId(t, c) == [src |-> "client", t |-> t, c |-> c]

\* ------------------------------------------------------------- input sets
TimeStamps == 0..MaxTime
\* GET /chats: entry k is conversation BackendId(k) with this updated_at.
Listings == UNION {[1..n -> TimeStamps] : n \in 0..MaxListed}
\* GET /chat-history/{id}: data.history.
HistoryPayloads ==
  { <<>>,
    <<[role |-> "user", content |-> "old question", timestamp |-> 0]>>,
    <<[role |-> "user", content |-> "old question", timestamp |-> 0],
      [role |-> "assistant", content |-> "old answer", timestamp |-> 0]>> }
\* GET /user-memory: data.memory (absent, or an object with entries).
MemoryPayloads == {"{}", "{k:v}"}
\* The trimmed text of the message input when sendMessage runs.
Inputs == {"", "hi"}
\* How a fetch ends: a 2xx response, a non-2xx response, a rejected promise.
Outcomes == {"ok", "notok", "throw"}

\* --------------------------------------------------------------- the Map
Ids(cs) == {cs[i].id : i \in 1..Len(cs)}
Has(cs, id) == id \in Ids(cs)
IndexOf(cs, id) == CHOOSE i \in 1..Len(cs) : cs[i].id = id
Get(cs, id) == cs[IndexOf(cs, id)]
\* Map.prototype.set: an existing key keeps its place, a new key goes last.
MapSet(cs, rec) ==
  IF Has(cs, rec.id) THEN [cs EXCEPT ![IndexOf(cs, rec.id)] = rec]
  ELSE Append(cs, rec)
MapDelete(cs, id) == SelectSeq(cs, LAMBDA r : r.id # id)

\* ------------------------------------------------------------- rendering
Len0(cs, id) == Len(Get(cs, id).messages)

RenderChatList(cs) == Ids(cs)

RenderMessages(cs, cur) ==
  IF ~Has(cs, cur) THEN [kind |-> "noChat", chat |-> cur, n |-> 0]
  ELSE IF Len0(cs, cur) = 0 THEN [kind |-> "welcome", chat |-> cur, n |-> 0]
  ELSE [kind |-> "messages", chat |-> cur, n |-> Len0(cs, cur)]

UpdateChatTitle(cs, cur, d) ==
  IF Has(cs, cur) THEN Get(cs, cur).title ELSE d.title

ForceUIUpdate(cs, cur, d) ==
  [list |-> RenderChatList(cs),
   view |-> RenderMessages(cs, cur),
   title |-> UpdateChatTitle(cs, cur, d)]

\* ------------------------------------------------------------------ tasks
\* A suspended continuation: the handler, the await it stands at, the chat id
\* it holds (its argument, the id it generated, or the chat_id of its request),
\* the message text it holds, and a count: for clearAllChats the DELETE
\* fetches not yet settled, for sendMessage the user messages it appended.
Task(op, pc, id, msg, n) == [op |-> op, pc |-> pc, id |-> id, msg |-> msg, n |-> n]
One(t) == SetToBag({t})
InFlight == BagToSet(tasks)
\* What the last handler step was: the handler that ran (called by an event, or
\* resumed by a response), the chatId it was called with (NULL when resumed or
\* called without one), whether it rendered the transcript, whether the
\* response that resumed it reported success (FALSE for an event), and the
\* target of the latest switchToChat call that went on to fetch, as long as
\* only continuations of switchToChat have run since (NULL otherwise).
Step(op, arg, render, ok, sw) ==
  [op |-> op, arg |-> arg, render |-> render, ok |-> ok, sw |-> sw]

\* --------------------------------------------------------- pure handlers
\* loadUserMemory after its fetch.
LoadUserMemory(mem, outcome, payload) ==
  IF outcome = "ok" THEN payload ELSE mem

\* loadChatsFromBackend after its fetch: the new Map, or the old one.
HydrateChats(listing) ==
  [k \in 1..Len(listing) |->
     [id |-> BackendId(k), title |-> "Listed Chat", messages |-> <<>>,
      createdAt |-> 0, updatedAt |-> listing[k],
      lastMessage |-> "No messages yet"]]

\* Array.prototype.sort((a, b) => b.updatedAt - a.updatedAt)[0]: the sort is
\* stable, so among the latest the first in insertion order comes first.
MostRecentChat(cs) ==
  cs[CHOOSE i \in 1..Len(cs) :
       \A j \in 1..Len(cs) :
          /\ cs[j].updatedAt <= cs[i].updatedAt
          /\ (j < i => cs[j].updatedAt < cs[i].updatedAt)]

\* data.history.map(...) of loadChatHistory.
MapHistory(payload) ==
  [k \in 1..Len(payload) |->
     [type |-> IF payload[k].role = "user" THEN "user" ELSE "ai",
      content |-> payload[k].content,
      timestamp |-> payload[k].timestamp]]

\* loadChatHistory after its fetch; array is whether data.history is an array.
LoadChatHistoryUpsert(cs, chatId, outcome, array, payload) ==
  IF outcome = "ok" /\ array
  THEN MapSet(cs, [id |-> chatId, title |-> "Untitled Chat",
                   messages |-> MapHistory(payload), createdAt |-> 0,
                   updatedAt |-> 0, lastMessage |-> "No messages yet"])
  ELSE cs
LoadChatHistory(cs, chatId, outcome, array, payload) ==
  IF outcome = "ok" /\ array /\ Has(cs, chatId)
  THEN [cs EXCEPT ![IndexOf(cs, chatId)].messages = MapHistory(payload)]
  ELSE cs

\* addMessageLocally: the Map afterwards.
AddMessageLocally(cs, cur, type, content, t) ==
  IF ~Has(cs, cur) THEN cs
  ELSE [cs EXCEPT ![IndexOf(cs, cur)] =
          [@ EXCEPT !.messages = Append(@, [type |-> type, content |-> content,
                                            timestamp |-> t]),
                    !.updatedAt = t]]

\* addMessageLocally renders the transcript and the list unless it returned early.
RenderAfterAdd(cs, cur, d) ==
  IF ~Has(cs, cur) THEN d
  ELSE [d EXCEPT !.view = RenderMessages(cs, cur), !.list = RenderChatList(cs)]

\* createNewChat after its fetch: chatData.
NewChat(chatId, t) ==
  [id |-> chatId, title |-> "New Conversation", messages |-> <<>>,
   createdAt |-> t, updatedAt |-> t, lastMessage |-> ""]

\* How POST /chat and DELETE /chat/{id} end: data.success truthy, data.success
\* falsy, or a rejected promise (fetch or response.json()).
Replies == {"success", "failure", "throw"}

\* createNewChat after its fetch: the Map afterwards.
CreatedChatsUnchecked(cs, chatId, reply, t) == MapSet(cs, NewChat(chatId, t))
CreatedChats(cs, chatId, reply, t) ==
  IF reply = "success" THEN MapSet(cs, NewChat(chatId, t)) ELSE cs

\* How POST /ask ends: data.response with a 2xx status, data.error, neither
\* of them, or a rejected promise.
AskReplies == {"response", "error", "nothing", "throw"}

\* The assistant text sendMessage appends for each of them.
ReplyText(reply) ==
  CASE reply = "response" -> "answer"
    [] reply = "error" -> "backend error"
    [] reply = "nothing" -> "Sorry, I encountered an error. Please try again."
    [] OTHER ->
         "Sorry, I couldn't connect to the server. Please check your connection and try again."

\* The example message of the spec's title test, longer than the title limit.
LongText ==
  "Explain recursion in programming with a long example text exceeding forty chars"

\* firstMessage.length of the texts the model uses.
TextLength(text) ==
  CASE text = "hi" -> 2
    [] text = LongText -> 79
    [] OTHER -> 0

\* firstMessage.substring(0, 40) + "..." of the texts the model uses.
Truncated(text) ==
  CASE text = LongText -> "Explain recursion in programming with a ..."
    [] OTHER -> text

TitleLimit == 40

\* updateChatTitleFromFirstMessage: whether it goes past its early return.
TitleApplies(cs, cur) == Has(cs, cur) /\ Len0(cs, cur) <= 2

\* updateChatTitleFromFirstMessage up to its fetch: the Map afterwards.
SetTitleFromFirstMessage(cs, cur, firstMessage) ==
  IF TitleApplies(cs, cur)
  THEN [cs EXCEPT ![IndexOf(cs, cur)].title =
          IF TextLength(firstMessage) > TitleLimit
          THEN Truncated(firstMessage) ELSE firstMessage]
  ELSE cs

\* sendMessage's early return.
SendRejectedBlankOnly(msg, loading) == msg = ""
SendRejected(msg, loading) == msg = "" \/ loading

\* sendMessage after POST /ask: this.isLoading when the handler next suspends
\* or returns (on success it first awaits loadUserMemory).
FlagAfterAskNoCatch(reply, loading) == IF reply \in {"error", "nothing"} THEN FALSE ELSE loading
FlagAfterAsk(reply, loading) == IF reply = "response" THEN loading ELSE FALSE

\* switchToChat's early return.
AlreadyOnChatNever(cur, chatId) == FALSE
AlreadyOnChat(cur, chatId) == cur = chatId

\* switchToChat: whether it awaits loadChatHistory.
NeedsHistory(cs, chatId) == Has(cs, chatId) /\ Len0(cs, chatId) = 0

\* deleteChat after its fetch: whether it goes on to remove the conversation
\* (data.success).
DeleteConfirmedAlways(reply) == TRUE
DeleteConfirmed(reply) == reply = "success"

\* deleteChat: the selection after the current conversation was removed and
\* others remain (remainingChats[0].id).
RemainingChoice(cs) == cs[1].id

\* The state after construction: init() has run up to the fetch of loadUserMemory.
Constructed ==
  /\ now = 0
  /\ currentChatId = NULL
  /\ chats = <<>>
  /\ chatCounter = 1
  /\ isLoading = FALSE
  /\ userMemory = "{}"
  /\ isInitialized = FALSE
  /\ tasks = One(Task("initializeApp", "memory", NULL, "", 0))
  /\ dom = [list |-> {}, view |-> [kind |-> "appLoading", chat |-> NULL, n |-> 0],
            title |-> ""]
  /\ lastStep = Step("initializeApp", NULL, FALSE, FALSE, NULL)
  /\ events = 0
  /\ historyLoaded = {}

\* No formatTime call is followed in the conversation model.
FmtIdle == [now |-> 0, date |-> 0, str |-> ""]

Init == Constructed /\ fmt = FmtIdle

\* The clock advances between events.
Tick ==
  /\ now < MaxTime
  /\ now' = now + 1
  /\ UNCHANGED <<currentChatId, chats, chatCounter, isLoading, userMemory,
                 isInitialized, tasks, dom, lastStep, events, historyLoaded, fmt>>

\* ---------------------------------------------------------- user events
\* createNewChat up to its fetch (POST /chat).
CreateNewChat ==
  /\ events < MaxEvents
  /\ events' = events + 1
  /\ chatCounter' = chatCounter + 1
  /\ tasks' = tasks (+) One(Task("createNewChat", "create",
                                 ClientId(now, chatCounter), "", 0))
  /\ lastStep' = Step("createNewChat", NULL, FALSE, FALSE, NULL)
  /\ UNCHANGED <<now, currentChatId, chats, isLoading, userMemory,
                 isInitialized, dom>>
  /\ historyLoaded' = historyLoaded \cap Ids(chats')
  /\ UNCHANGED fmt

\* switchToChat(chatId) up to its first await or, without one, to its end.
\* The callers are the click and key handlers of the rendered list entries.
SwitchToChat ==
  \E chatId \in dom.list :
    /\ events < MaxEvents
    /\ events' = events + 1
    /\ IF AlreadyOnChat(currentChatId, chatId)
       THEN /\ lastStep' = Step("switchToChat", chatId, FALSE, FALSE, NULL)
            /\ UNCHANGED <<now, currentChatId, chats, chatCounter, isLoading,
                           userMemory, isInitialized, tasks, dom>>
       ELSE IF NeedsHistory(chats, chatId)
       THEN /\ tasks' = tasks (+) One(Task("switchToChat", "history", chatId, "", 0))
            /\ lastStep' = Step("switchToChat", chatId, FALSE, FALSE, chatId)
            /\ UNCHANGED <<now, currentChatId, chats, chatCounter, isLoading,
                           userMemory, isInitialized, dom>>
       ELSE /\ currentChatId' = chatId
            /\ dom' = ForceUIUpdate(chats, chatId, dom)
            /\ lastStep' = Step("switchToChat", chatId, TRUE, FALSE, NULL)
            /\ UNCHANGED <<now, chats, chatCounter, isLoading, userMemory,
                           isInitialized, tasks>>
    /\ historyLoaded' = historyLoaded \cap Ids(chats')
    /\ UNCHANGED fmt

\* sendMessage up to its fetch (POST /ask); msg is input.value.trim().
SendMessage ==
  \E msg \in Inputs :
    /\ events < MaxEvents
    /\ events' = events + 1
    /\ IF SendRejected(msg, isLoading)
       THEN /\ lastStep' = Step("sendMessage", NULL, FALSE, FALSE, NULL)
            /\ UNCHANGED <<now, currentChatId, chats, chatCounter, isLoading,
                           userMemory, isInitialized, tasks, dom>>
       ELSE /\ isLoading' = TRUE
            /\ chats' = AddMessageLocally(chats, currentChatId, "user", msg, now)
            /\ dom' = RenderAfterAdd(chats', currentChatId, dom)
            /\ tasks' = tasks (+) One(Task("sendMessage", "ask", currentChatId, msg,
                                           IF Has(chats, currentChatId) THEN 1 ELSE 0))
            /\ lastStep' = Step("sendMessage", NULL, Has(chats, currentChatId), FALSE, NULL)
            /\ UNCHANGED <<now, currentChatId, chatCounter, userMemory,
                           isInitialized>>
    /\ historyLoaded' = historyLoaded \cap Ids(chats')
    /\ UNCHANGED fmt

\* deleteChat(chatId), confirmed, up to its fetch (DELETE /chat/{id}).  The
\* caller is the delete button of a rendered list entry.
DeleteChat ==
  \E chatId \in dom.list :
    /\ events < MaxEvents
    /\ events' = events + 1
    /\ tasks' = tasks (+) One(Task("deleteChat", "delete", chatId, "", 0))
    /\ lastStep' = Step("deleteChat", chatId, FALSE, FALSE, NULL)
    /\ UNCHANGED <<now, currentChatId, chats, chatCounter, isLoading,
                   userMemory, isInitialized, dom>>
    /\ historyLoaded' = historyLoaded \cap Ids(chats')
    /\ UNCHANGED fmt

\* clearAllChats, confirmed, up to Promise.all of its DELETE fetches.  With
\* an empty Map Promise.all([]) is already fulfilled and the handler runs on
\* to createNewChat's fetch.
ClearAllChats ==
  /\ events < MaxEvents
  /\ events' = events + 1
  /\ IF Len(chats) > 0
     THEN /\ tasks' = tasks (+) One(Task("clearAllChats", "deletes", NULL, "",
                                         Len(chats)))
          /\ lastStep' = Step("clearAllChats", NULL, FALSE, FALSE, NULL)
          /\ UNCHANGED <<chats, chatCounter>>
     ELSE /\ chats' = <<>>
          /\ chatCounter' = 2
          /\ tasks' = tasks (+) One(Task("clearAllChats", "create",
                                         ClientId(now, 1), "", 0))
          /\ lastStep' = Step("clearAllChats", NULL, FALSE, FALSE, NULL)
  /\ UNCHANGED <<now, currentChatId, isLoading, userMemory, isInitialized, dom>>
  /\ historyLoaded' = historyLoaded \cap Ids(chats')
  /\ UNCHANGED fmt

\* ------------------------------------------------------------ responses
\* The response of GET /user-memory arrives: loadUserMemory returns to
\* initializeApp, which goes on to loadChatsFromBackend's fetch, or to
\* sendMessage, which releases the in-flight flag.
LoadUserMemoryDone ==
  \E t \in InFlight, outcome \in Outcomes, payload \in MemoryPayloads :
    /\ t.pc = "memory"
    /\ userMemory' = LoadUserMemory(userMemory, outcome, payload)
    /\ IF t.op = "initializeApp"
       THEN /\ tasks' = (tasks (-) One(t))
                          (+) One(Task("initializeApp", "chats", NULL, "", 0))
            /\ lastStep' = Step("initializeApp", NULL, FALSE, outcome = "ok", NULL)
            /\ UNCHANGED isLoading
       ELSE /\ tasks' = tasks (-) One(t)
            /\ isLoading' = FALSE
            /\ lastStep' = Step("sendMessage", NULL, FALSE, outcome = "ok", NULL)
    /\ UNCHANGED <<now, currentChatId, chats, chatCounter, isInitialized, dom, events>>
    /\ historyLoaded' = historyLoaded \cap Ids(chats')
    /\ UNCHANGED fmt

\* The response of GET /chats arrives in initializeApp: loadChatsFromBackend
\* returns, and initializeApp runs on to createNewChat's fetch or to
\* loadChatHistory's fetch for the most recent conversation.
LoadChatsDone ==
  \E t \in InFlight, outcome \in Outcomes, array \in BOOLEAN, listing \in Listings :
    LET chatsLoaded == outcome = "ok" /\ array
        cs == IF chatsLoaded THEN HydrateChats(listing) ELSE chats
    IN
    /\ t.pc = "chats"
    /\ chats' = cs
    /\ IF ~chatsLoaded \/ Len(cs) = 0
       THEN /\ chatCounter' = chatCounter + 1
            /\ tasks' = (tasks (-) One(t))
                          (+) One(Task("initializeApp", "create",
                                       ClientId(now, chatCounter), "", 0))
            /\ lastStep' = Step("initializeApp", NULL, FALSE, chatsLoaded, NULL)
            /\ UNCHANGED currentChatId
       ELSE /\ currentChatId' = MostRecentChat(cs).id
            /\ tasks' = (tasks (-) One(t))
                          (+) One(Task("initializeApp", "history",
                                       MostRecentChat(cs).id, "", 0))
            /\ lastStep' = Step("initializeApp", NULL, FALSE, chatsLoaded, NULL)
            /\ UNCHANGED chatCounter
    /\ UNCHANGED <<now, isLoading, userMemory, isInitialized, dom, events>>
    /\ historyLoaded' = historyLoaded \cap Ids(chats')
    /\ UNCHANGED fmt

\* The response of GET /chat-history/{id} arrives: loadChatHistory returns to
\* switchToChat, which selects the conversation and renders, or to
\* initializeApp, which renders and finishes.
LoadChatHistoryDone ==
  \E t \in InFlight, outcome \in Outcomes, array \in BOOLEAN,
     payload \in HistoryPayloads :
    LET cs == LoadChatHistory(chats, t.id, outcome, array, payload)
        cur == IF t.op = "switchToChat" THEN t.id ELSE currentChatId
    IN
    /\ t.pc = "history"
    /\ chats' = cs
    /\ currentChatId' = cur
    /\ dom' = ForceUIUpdate(cs, cur, dom)
    /\ isInitialized' = IF t.op = "initializeApp" THEN TRUE ELSE isInitialized
    /\ tasks' = tasks (-) One(t)
    /\ lastStep' = Step(t.op, NULL, TRUE, outcome = "ok",
                        IF t.op = "switchToChat" THEN lastStep.sw ELSE NULL)
    /\ UNCHANGED <<now, chatCounter, isLoading, userMemory, events>>
    /\ historyLoaded' = (IF outcome = "ok" THEN historyLoaded \cup {t.id}
                          ELSE historyLoaded) \cap Ids(chats')
    /\ UNCHANGED fmt

\* The response of POST /chat arrives in createNewChat, which returns to its
\* caller: the click handler, initializeApp, deleteChat (which renders once
\* more) or clearAllChats.
CreateNewChatDone ==
  \E t \in InFlight, reply \in Replies :
    LET cs == CreatedChats(chats, t.id, reply, now)
        cur == IF reply = "success" THEN t.id ELSE currentChatId
        d == IF reply = "success" THEN ForceUIUpdate(cs, cur, dom) ELSE dom
    IN
    /\ t.pc = "create"
    /\ chats' = cs
    /\ currentChatId' = cur
    /\ dom' = IF t.op = "deleteChat" THEN ForceUIUpdate(cs, cur, d) ELSE d
    /\ isInitialized' = IF t.op = "initializeApp" THEN TRUE ELSE isInitialized
    /\ tasks' = tasks (-) One(t)
    /\ lastStep' = Step(t.op, NULL, reply = "success" \/ t.op = "deleteChat",
                        reply = "success", NULL)
    /\ UNCHANGED <<now, chatCounter, isLoading, userMemory, events>>
    /\ historyLoaded' = historyLoaded \cap Ids(chats')
    /\ UNCHANGED fmt

\* The response of POST /ask arrives in sendMessage: it appends the assistant
\* message and, on success, starts updateChatTitleFromFirstMessage (not
\* awaited) and awaits loadUserMemory; otherwise it releases the flag.
AskDone ==
  \E t \in InFlight, reply \in AskReplies :
    LET cs1 == AddMessageLocally(chats, currentChatId, "ai", ReplyText(reply), now)
        cs2 == IF reply = "response"
               THEN SetTitleFromFirstMessage(cs1, currentChatId, t.msg) ELSE cs1
        title == IF reply = "response" /\ TitleApplies(cs1, currentChatId)
                 THEN One(Task("updateChatTitleFromFirstMessage", "title",
                               currentChatId, "", 0))
                 ELSE EmptyBag
    IN
    /\ t.pc = "ask"
    /\ chats' = cs2
    /\ dom' = RenderAfterAdd(cs1, currentChatId, dom)
    /\ IF reply = "response"
       THEN /\ tasks' = ((tasks (-) One(t)) (+) title)
                          (+) One(Task("sendMessage", "memory", t.id, t.msg, t.n))
       ELSE /\ tasks' = tasks (-) One(t)
    /\ isLoading' = FlagAfterAsk(reply, isLoading)
    /\ lastStep' = Step("sendMessage", NULL, Has(chats, currentChatId),
                        reply = "response", NULL)
    /\ UNCHANGED <<now, currentChatId, chatCounter, userMemory, isInitialized,
                   events>>
    /\ historyLoaded' = historyLoaded \cap Ids(chats')
    /\ UNCHANGED fmt

\* The fetch of updateChatTitleFromFirstMessage settles (either way): it
\* updates the title element and renders the list.
UpdateChatTitleDone ==
  \E t \in InFlight :
    /\ t.pc = "title"
    /\ dom' = [dom EXCEPT !.title = UpdateChatTitle(chats, currentChatId, dom),
                          !.list = RenderChatList(chats)]
    /\ tasks' = tasks (-) One(t)
    /\ lastStep' = Step(t.op, NULL, FALSE, FALSE, NULL)
    /\ UNCHANGED <<now, currentChatId, chats, chatCounter, isLoading,
                   userMemory, isInitialized, events>>
    /\ historyLoaded' = historyLoaded \cap Ids(chats')
    /\ UNCHANGED fmt

\* The response of DELETE /chat/{id} arrives in deleteChat: on success it
\* removes the conversation, reselects if it was current (running on to
\* createNewChat's fetch when none remain) and renders.
DeleteChatDone ==
  \E t \in InFlight, reply \in Replies :
    LET cs == MapDelete(chats, t.id) IN
    /\ t.pc = "delete"
    /\ IF ~DeleteConfirmed(reply)
       THEN /\ tasks' = tasks (-) One(t)
            /\ lastStep' = Step("deleteChat", NULL, FALSE, reply = "success", NULL)
            /\ UNCHANGED <<currentChatId, chats, chatCounter, dom>>
       ELSE IF currentChatId = t.id /\ Len(cs) = 0
       THEN /\ chats' = cs
            /\ chatCounter' = chatCounter + 1
            /\ tasks' = (tasks (-) One(t))
                          (+) One(Task("deleteChat", "create",
                                       ClientId(now, chatCounter), "", 0))
            /\ lastStep' = Step("deleteChat", NULL, FALSE, reply = "success", NULL)
            /\ UNCHANGED <<currentChatId, dom>>
       ELSE /\ chats' = cs
            /\ currentChatId' = IF currentChatId = t.id THEN RemainingChoice(cs)
                                ELSE currentChatId
            /\ dom' = ForceUIUpdate(cs, currentChatId', dom)
            /\ tasks' = tasks (-) One(t)
            /\ lastStep' = Step("deleteChat", NULL, TRUE, reply = "success", NULL)
            /\ UNCHANGED chatCounter
    /\ UNCHANGED <<now, isLoading, userMemory, isInitialized, events>>
    /\ historyLoaded' = historyLoaded \cap Ids(chats')
    /\ UNCHANGED fmt

\* One DELETE fetch of clearAllChats settles.  A rejected fetch rejects
\* Promise.all at once and the handler ends in its catch; when the last one
\* is fulfilled the handler clears the Map, resets the counter and runs on to
\* createNewChat's fetch.
ClearDeleteDone ==
  \E t \in InFlight, outcome \in Outcomes :
    /\ t.pc = "deletes"
    /\ IF outcome = "throw"
       THEN /\ tasks' = tasks (-) One(t)
            /\ UNCHANGED <<chats, chatCounter>>
       ELSE IF t.n > 1
       THEN /\ tasks' = (tasks (-) One(t)) (+) One([t EXCEPT !.n = @ - 1])
            /\ UNCHANGED <<chats, chatCounter>>
       ELSE /\ chats' = <<>>
            /\ chatCounter' = 2
            /\ tasks' = (tasks (-) One(t))
                          (+) One(Task("clearAllChats", "create",
                                       ClientId(now, 1), "", 0))
    /\ lastStep' = Step("clearAllChats", NULL, FALSE, outcome # "throw", NULL)
    /\ UNCHANGED <<now, currentChatId, isLoading, userMemory, isInitialized,
                   dom, events>>
    /\ historyLoaded' = historyLoaded \cap Ids(chats')
    /\ UNCHANGED fmt

Next ==
  \/ Tick
  \/ CreateNewChat
  \/ SwitchToChat
  \/ SendMessage
  \/ DeleteChat
  \/ ClearAllChats
  \/ LoadUserMemoryDone
  \/ LoadChatsDone
  \/ LoadChatHistoryDone
  \/ CreateNewChatDone
  \/ AskDone
  \/ UpdateChatTitleDone
  \/ DeleteChatDone
  \/ ClearDeleteDone

Spec == Init /\ [][Next]_vars

\* Every request is answered in the end: the responses of POST /ask and of
\* GET /user-memory do arrive.
LiveSpec == Spec /\ WF_vars(AskDone) /\ WF_vars(LoadUserMemoryDone)

\* ------------------------------------------------------------ formatTime
\* The divisors and limits of formatTime.
MsPerMinute == 60000
MsPerHour == 3600000
MsPerDay == 86400000
MinutesPerHour == 60
HoursPerDay == 24
DaysPerWeek == 7

\* The elapsed times tried: up to MaxMultiple minutes, hours and days, and
\* the values within Window ms of each.
MaxMultiple == 7
Window == 1

\* date.toLocaleDateString(): the calendar day of the date (its rendering
\* depends on the locale; the day number stands for it).
LocaleDateString(date) == "day " \o ToString(date \div MsPerDay)

\* formatTime(date) when new Date() is nowMs; \div is the floor division of
\* Math.floor(x / y).
FormatTimeInclusive(nowMs, date) ==
  LET diffMs == nowMs - date
      diffMins == diffMs \div MsPerMinute
      diffHours == diffMs \div MsPerHour
      diffDays == diffMs \div MsPerDay
  IN IF diffMins < 1 THEN "Now"
     ELSE IF diffMins <= MinutesPerHour THEN ToString(diffMins) \o "m ago"
     ELSE IF diffHours <= HoursPerDay THEN ToString(diffHours) \o "h ago"
     ELSE IF diffDays <= DaysPerWeek THEN ToString(diffDays) \o "d ago"
     ELSE LocaleDateString(date)
FormatTime(nowMs, date) ==
  LET diffMs == nowMs - date
      diffMins == diffMs \div MsPerMinute
      diffHours == diffMs \div MsPerHour
      diffDays == diffMs \div MsPerDay
  IN IF diffMins < 1 THEN "Now"
     ELSE IF diffMins < MinutesPerHour THEN ToString(diffMins) \o "m ago"
     ELSE IF diffHours < HoursPerDay THEN ToString(diffHours) \o "h ago"
     ELSE IF diffDays < DaysPerWeek THEN ToString(diffDays) \o "d ago"
     ELSE LocaleDateString(date)

\* chat.updatedAt of the conversation being rendered, and now - date.
FmtDates == {0, MsPerDay}
FmtElapsed ==
  {k * u + o : k \in 0..MaxMultiple, u \in {MsPerMinute, MsPerHour, MsPerDay},
               o \in -Window..Window}

FmtInit ==
  /\ Constructed
  /\ fmt \in {[now |-> d + e, date |-> d, str |-> ""] :
                d \in FmtDates, e \in FmtElapsed}

\* renderChatList calls formatTime(chat.updatedAt) for an entry.
FormatTimeCall ==
  /\ fmt.str = ""
  /\ fmt' = [fmt EXCEPT !.str = FormatTime(fmt.now, fmt.date)]
  /\ UNCHANGED <<now, currentChatId, chats, chatCounter, isLoading, userMemory,
                 isInitialized, tasks, dom, lastStep, events, historyLoaded>>

FmtNext == FormatTimeCall

FmtSpec == FmtInit /\ [][FmtNext]_vars

\* ------------------------------------------------------------- properties
Messages(cs, id) == Get(cs, id).messages
\* The requests of one kind that are outstanding.
Outstanding(pc) == {t \in InFlight : t.pc = pc}
\* This step is a user event calling handler op.
Called(op) == events' # events /\ lastStep'.op = op
\* This step is the arrival of the response continuation t waits for, and t ends.
Ends(t) == tasks' = tasks (-) One(t)

\* C1: in every reachable state currentChatId is null or the id of a
\* conversation in the chats map.
C1_NoDanglingSelection ==
  currentChatId = NULL \/ Has(chats, currentChatId)

\* C2: a sendMessage call made while isLoading is true appends no message and
\* issues no request, and at most one exchange request is outstanding.
C2_SingleFlightSend ==
  /\ [][(Called("sendMessage") /\ isLoading)
          => (chats' = chats /\ tasks' = tasks /\ isLoading')]_vars
  /\ [](\A t \in Outstanding("ask") :
          CopiesIn(t, tasks) = 1 /\ Outstanding("ask") = {t})

\* A sendMessage call has just been rejected while the exchange request of an
\* earlier one, whose user message is in the current conversation, is outstanding.
C2_Witness ==
  /\ lastStep = Step("sendMessage", NULL, FALSE, FALSE, NULL)
  /\ isLoading
  /\ \E t \in Outstanding("ask") :
       /\ t.id = currentChatId
       /\ t.n = 1
       /\ Has(chats, currentChatId)
       /\ Len(Messages(chats, currentChatId)) = 1

\* C3: isLoading is true exactly while a sendMessage continuation is
\* suspended, so every way the exchange ends (reply, application error,
\* transport failure) releases the flag when the handler returns; and, every
\* request being answered, isLoading true leads to isLoading false.
C3_FlagReleased ==
  /\ [](isLoading <=> \E t \in InFlight : t.op = "sendMessage")
  /\ (isLoading ~> ~isLoading)

\* A send has ended with the flag released after a transport failure left its
\* assistant message.
C3_Witness ==
  /\ ~isLoading
  /\ lastStep.op = "sendMessage"
  /\ \E i \in 1..Len(chats) : \E k \in 1..Len(chats[i].messages) :
       /\ chats[i].messages[k].type = "ai"
       /\ chats[i].messages[k].content = ReplyText("throw")

\* The user message of send t sits in sequence ms immediately followed by
\* exactly one assistant message.
AnsweredOnce(ms, t) ==
  \E k \in 1..Len(ms) :
    /\ ms[k].type = "user" /\ ms[k].content = t.msg
    /\ k + 1 <= Len(ms) /\ ms[k + 1].type = "ai"
    /\ (k + 2 <= Len(ms) => ms[k + 2].type # "ai")

\* C4: when the exchange of a send that appended its user message fails
\* (application error or transport failure), the conversation the message
\* was appended to still holds it, immediately followed by exactly one
\* assistant message, whatever interleaved while the request was in flight.
C4_FailedExchangeAnswered ==
  [][\A t \in Outstanding("ask") :
       (Ends(t) /\ t.n = 1)
         => (Has(chats', t.id) /\ AnsweredOnce(Messages(chats', t.id), t))]_vars

\* C5: every append to a conversation puts the message last, leaving the
\* earlier ones in place, and does not lower the conversation's updatedAt,
\* also when updatedAt came from the backend listing.
C5_AppendOrderAndRecency ==
  [][(lastStep'.op = "sendMessage" /\ Has(chats, currentChatId) /\ chats' # chats)
       => LET old == Get(chats, currentChatId)
              new == Get(chats', currentChatId)
          IN /\ Len(new.messages) = Len(old.messages) + 1
             /\ SubSeq(new.messages, 1, Len(old.messages)) = old.messages
             /\ new.updatedAt >= old.updatedAt]_vars

\* C6: switchToChat(id) called while id is the current conversation issues no
\* request, renders nothing and leaves the chats map and currentChatId as
\* they were.
C6_SwitchToCurrentIsNoOp ==
  [][(Called("switchToChat") /\ lastStep'.arg = currentChatId)
       => /\ tasks' = tasks
          /\ ~lastStep'.render
          /\ dom' = dom
          /\ chats' = chats
          /\ currentChatId' = currentChatId]_vars

\* switchToChat has just been called for the current conversation, one the
\* backend listed, which is in the Map and whose history was never delivered.
C6_Witness ==
  /\ lastStep = Step("switchToChat", currentChatId, FALSE, FALSE, NULL)
  /\ currentChatId.src = "backend"
  /\ Has(chats, currentChatId)
  /\ Len(Messages(chats, currentChatId)) = 0
  /\ currentChatId \notin historyLoaded
  /\ Outstanding("history") = {}

\* C7: two switchToChat calls for the same conversation never have two
\* history requests for it outstanding at once.
C7_OneHistoryFetchPerChat ==
  \A t \in Outstanding("history") :
    t.op = "switchToChat" => CopiesIn(t, tasks) = 1

\* This step is a successful deleteChat of the current conversation, after
\* which others remain.
DeletedCurrent(t) ==
  /\ t.pc = "delete"
  /\ Ends(t)
  /\ t.id = currentChatId
  /\ Has(chats, t.id)
  /\ ~Has(chats', t.id)
  /\ Len(chats') > 0

\* C8: after a successful deleteChat of the current conversation with others
\* remaining, currentChatId is the remaining conversation with the greatest
\* updatedAt.
C8_SelectsMostRecentRemaining ==
  [][\A t \in InFlight :
       DeletedCurrent(t)
         => /\ Has(chats', currentChatId')
            /\ \A j \in 1..Len(chats') :
                 chats'[j].updatedAt <= Get(chats', currentChatId').updatedAt]_vars

\* C9: after a successful deleteChat of the current conversation with others
\* remaining, when the history of the newly selected conversation (one the
\* backend listed) was never fetched, the step issues a history request for
\* it and does not render yet.
C9_LoadsHistoryBeforeRender ==
  [][\A t \in InFlight :
       (DeletedCurrent(t) /\ currentChatId'.src = "backend"
          /\ currentChatId' \notin historyLoaded')
         => /\ \E u \in BagToSet(tasks') : u.pc = "history" /\ u.id = currentChatId'
            /\ ~lastStep'.render]_vars

\* C10: when deleteChat of the only conversation has run to its end (its
\* createNewChat has returned), the chats map holds exactly one conversation,
\* the newly created one, and it is current.
C10_ExactlyOneNewChat ==
  [][\A t \in InFlight :
       (t.op = "deleteChat" /\ t.pc = "create" /\ Ends(t))
         => /\ Len(chats') = 1
            /\ chats'[1].id = t.id
            /\ currentChatId' = t.id]_vars

\* This step is the arrival of the response of POST /ask for send t.
Answered(t) == t.pc = "ask" /\ CopiesIn(t, tasks') < CopiesIn(t, tasks)

\* C11: an exchange never changes the title of a conversation that already
\* holds earlier messages: whenever the reply of an exchange changes the title
\* of a conversation, that conversation held, before the reply, no message
\* other than the user message of this very exchange.
C11_TitleOnlyFromFirstExchange ==
  [][\A t \in InFlight : \A i \in 1..Len(chats) :
       (Answered(t) /\ Has(chats', chats[i].id)
          /\ Get(chats', chats[i].id).title # chats[i].title)
         => \/ Len(chats[i].messages) = 0
            \/ /\ t.id = chats[i].id
               /\ t.n = 1
               /\ Len(chats[i].messages) = 1
               /\ chats[i].messages[1].type = "user"
               /\ chats[i].messages[1].content = t.msg]_vars

\* C12: createNewChat adds its conversation to the chats map only in the step
\* in which POST /chat reports success, and when the call fails (success
\* false or transport failure) that step leaves the chats map and
\* currentChatId as they were.
C12_CreateOnlyOnSuccess ==
  [][/\ \A id \in Ids(chats') \ Ids(chats) :
          id.src = "client"
            => \E t \in Outstanding("create") :
                 t.id = id /\ Ends(t) /\ lastStep'.ok
     /\ \A t \in Outstanding("create") :
          (Ends(t) /\ ~lastStep'.ok)
            => (chats' = chats /\ currentChatId' = currentChatId)]_vars

\* A createNewChat called by the New Chat button has just returned after its
\* POST /chat failed, with a conversation current in a non-empty Map.
C12_Witness ==
  /\ lastStep.op = "createNewChat"
  /\ ~lastStep.ok
  /\ Outstanding("create") = {}
  /\ chatCounter > 1
  /\ Len(chats) > 0
  /\ Has(chats, currentChatId)

\* This step is the arrival of the response continuation t waits for.
Resumed(t) == CopiesIn(t, tasks') < CopiesIn(t, tasks)

\* C13: deleteChat removes nothing when it is called, and when DELETE
\* /chat/{id} fails (success false or transport failure) the step leaves the
\* chats map and currentChatId as they were; the conversation is removed in
\* the step in which the call reports success.
C13_DeleteOnlyOnSuccess ==
  [][/\ Called("deleteChat") => (chats' = chats /\ currentChatId' = currentChatId)
     /\ \A t \in Outstanding("delete") :
          Resumed(t)
            => IF lastStep'.ok THEN chats' = MapDelete(chats, t.id)
               ELSE chats' = chats /\ currentChatId' = currentChatId]_vars

\* A deleteChat of a conversation in the Map has just returned after its
\* DELETE failed: nothing is awaited any more, the conversation is still there
\* and the selection is in the Map.
C13_Witness ==
  /\ lastStep = Step("deleteChat", NULL, FALSE, FALSE, NULL)
  /\ tasks = EmptyBag
  /\ Len(chats) > 0
  /\ Has(chats, currentChatId)

\* C14: clearAllChats waits for every one of its delete requests to settle,
\* whatever the outcome of each: when one settles while others are pending the
\* handler keeps waiting for the others, and when the last one settles it
\* resets the chats map and chatCounter and goes on to create a conversation.
C14_ClearAwaitsEveryDelete ==
  [][\A t \in Outstanding("deletes") :
       Resumed(t)
         => IF t.n > 1
            THEN tasks' = (tasks (-) One(t)) (+) One([t EXCEPT !.n = t.n - 1])
            ELSE /\ chats' = <<>>
                 /\ chatCounter' = 2
                 /\ \E u \in BagToSet(tasks') :
                      u.op = "clearAllChats" /\ u.pc = "create"]_vars

\* C15: when bootstrap finishes after the listing was empty or failed (its
\* createNewChat has returned), the chats map holds exactly one conversation,
\* the newly created one, and it is current.
C15_BootstrapFallbackChat ==
  [][\A t \in Outstanding("create") :
       (t.op = "initializeApp" /\ Ends(t))
         => /\ isInitialized'
            /\ Ids(chats') = {t.id}
            /\ currentChatId' = t.id]_vars

\* Bootstrap's history request is outstanding in tasks bag ts.
BootstrapHistory(ts) ==
  {t \in BagToSet(ts) : t.op = "initializeApp" /\ t.pc = "history"}

\* C16: when bootstrap's listing succeeds and is non-empty, the step that
\* issues the history request makes the conversation with the greatest
\* updatedAt current, and as long as that request is outstanding neither the
\* conversation list nor the transcript has been rendered.
C16_HistoryBeforeFirstRender ==
  [][\A t \in BootstrapHistory(tasks') :
       /\ t \notin BootstrapHistory(tasks)
            => /\ currentChatId' = t.id
               /\ Has(chats', t.id)
               /\ \A j \in 1..Len(chats') :
                    chats'[j].updatedAt <= Get(chats', t.id).updatedAt
       /\ dom'.list = {}
       /\ dom'.view.kind = "appLoading"]_vars

\* C17: a conversation of the backend listing whose history no fetch has
\* delivered is never rendered as a loaded, empty conversation (the welcome
\* pane): every step that renders the welcome pane for a listed conversation
\* does so for one whose history has been delivered.
C17_UnloadedNotShownAsEmpty ==
  [][(lastStep'.render /\ dom'.view.kind = "welcome"
        /\ dom'.view.chat.src = "backend")
       => dom'.view.chat \in historyLoaded']_vars

\* C18: switchToChat called for a conversation whose history a fetch has
\* already delivered, empty or not, issues no request.
C18_NoRefetchOfLoadedHistory ==
  [][(Called("switchToChat") /\ lastStep'.arg \in historyLoaded)
       => tasks' = tasks]_vars

\* C19: when the response of a history request arrives for a conversation
\* that is no longer in the chats map, the step leaves the chats map as it is:
\* the conversation is not put back.
C19_LateHistoryDiscarded ==
  [][\A t \in Outstanding("history") :
       (Resumed(t) /\ ~Has(chats, t.id))
         => (chats' = chats /\ ~Has(chats', t.id))]_vars

\* The history response of a switchToChat has just arrived successfully for a
\* listed conversation that was removed while the request was outstanding,
\* and other conversations remain.
C19_Witness ==
  /\ lastStep = Step("switchToChat", NULL, TRUE, TRUE, NULL)
  /\ currentChatId.src = "backend"
  /\ ~Has(chats, currentChatId)
  /\ Len(chats) > 0

\* C20: whenever createNewChat inserts its conversation, the id it generated
\* is not yet an id of the chats map.
C20_FreshIdAtInsertion ==
  [][\A t \in Outstanding("create") :
       (Ends(t) /\ lastStep'.ok) => ~Has(chats, t.id)]_vars

\* C21: for every non-negative elapsed time e = now - date, formatTime
\* returns "Now" below one minute, the whole minutes below one hour, the
\* whole hours below one day, the whole days below seven days and the
\* absolute date from seven days on; each boundary value (one hour, one day,
\* seven days) falls in the coarser bucket.
C21_FormatTimeBuckets ==
  LET e == fmt.now - fmt.date IN
  (fmt.str # "" /\ e >= 0)
    => fmt.str =
         CASE e < MsPerMinute -> "Now"
           [] MsPerMinute <= e /\ e < MsPerHour -> ToString(e \div MsPerMinute) \o "m ago"
           [] MsPerHour <= e /\ e < MsPerDay -> ToString(e \div MsPerHour) \o "h ago"
           [] MsPerDay <= e /\ e < DaysPerWeek * MsPerDay
                -> ToString(e \div MsPerDay) \o "d ago"
           [] OTHER -> LocaleDateString(fmt.date)

\* formatTime has returned for a date exactly one hour old, exactly one day
\* old or exactly seven days old.
C21_Witness ==
  \/ fmt.str = "1h ago" /\ fmt.now - fmt.date = MsPerHour
  \/ fmt.str = "1d ago" /\ fmt.now - fmt.date = MsPerDay
  \/ fmt.str = LocaleDateString(fmt.date) /\ fmt.now - fmt.date = DaysPerWeek * MsPerDay

\* C22: when the response of an exchange arrives for a send whose user
\* message a conversation received, the assistant message is appended to that
\* conversation and to no other: the only conversation whose messages the
\* step changes is that one, and, when still in the Map, it does grow by one.
C22_ReplyToOriginConversation ==
  [][\A t \in InFlight :
       (Answered(t) /\ t.n = 1)
         => /\ \A i \in 1..Len(chats) :
                 (Has(chats', chats[i].id)
                    /\ Messages(chats', chats[i].id) # chats[i].messages)
                   => chats[i].id = t.id
            /\ Has(chats, t.id)
                 => Len(Messages(chats', t.id)) = Len(Messages(chats, t.id)) + 1]_vars

\* A message appended by addMessageLocally: the user's text or an assistant
\* text of sendMessage, as opposed to a message of a fetched history.
LocallyAppended(m) ==
  m.content \in (Inputs \cup {ReplyText(r) : r \in AskReplies})

\* C23: when the response of a history request arrives, every message that
\* sendMessage appended locally to that conversation is still in the
\* conversation afterwards.
C23_HistoryKeepsLocalMessages ==
  [][\A t \in Outstanding("history") :
       (Resumed(t) /\ Has(chats, t.id) /\ Has(chats', t.id))
         => \A k \in 1..Len(Messages(chats, t.id)) :
              LocallyAppended(Messages(chats, t.id)[k])
                => \E j \in 1..Len(Messages(chats', t.id)) :
                     Messages(chats', t.id)[j] = Messages(chats, t.id)[k]]_vars

\* C24: when switchToChat calls to different conversations overlapped and
\* the last of their history requests has just been answered, with nothing
\* but these calls and their continuations running since the latest call,
\* currentChatId is the target of that latest call.
C24_LatestSwitchWins ==
  (/\ lastStep.op = "switchToChat"
   /\ lastStep.arg = NULL
   /\ lastStep.sw # NULL
   /\ Has(chats, lastStep.sw)
   /\ \A t \in Outstanding("history") : t.op # "switchToChat")
    => currentChatId = lastStep.sw

\* C25: sendMessage issues no exchange request when currentChatId is null
\* or not in the chats map, so every outstanding exchange request belongs to
\* a send that appended its user message to a conversation.
C25_NoRequestWithoutConversation ==
  /\ [][(Called("sendMessage") /\ ~Has(chats, currentChatId))
          => tasks' = tasks]_vars
  /\ [](\A t \in Outstanding("ask") : t.n = 1 /\ t.id # NULL)
====
